---- MODULE Spec2Model ----
(***************************************************************************)
(* Model of the elsa-data-beacon-lambda CDK application.                   *)
(*                                                                         *)
(* bin/elsa-data-beacon-lambda.ts creates an App and instantiates          *)
(* ElsaDataBeaconLambdaStack in it; the stack's constructor declares an    *)
(* execution role, an S3 read statement and a Docker image function.       *)
(* unnamed/part_001 invokes the deployed function by name.                 *)
(*                                                                         *)
(* A process is one run of the entry script.  The constructor is modelled  *)
(* statement by statement (pc), because some properties are about the      *)
(* order in which the role, its policies and the function are declared.    *)
(***************************************************************************)
EXTENDS Naturals, Integers, Sequences, FiniteSets, TLC

VARIABLES
    pc,       \* position of the running process
    runs,     \* number of processes started so far
    tree,     \* construct tree of the running App: a set of stack records
    cur,      \* frame of the running ElsaDataBeaconLambdaStack constructor
    err,      \* uncaught exceptions of the running process, in order
    out,      \* outcome of every finished process, in order
    invoked   \* result of the last `aws lambda invoke`

vars == <<pc, runs, tree, cur, err, out, invoked>>

(***************************************************************************)
(* Bounds of the model.                                                    *)
(***************************************************************************)
MaxRuns == 2

(***************************************************************************)
(* Strings.                                                                *)
(***************************************************************************)
HasPrefix(s, p) == Len(s) >= Len(p) /\ SubSeq(s, 1, Len(p)) = p

Rest(s) == SubSeq(s, 2, Len(s))

First(s) == SubSeq(s, 1, 1)

\* Length of the run of ordinary characters a pattern starts with.
LiteralLen(p) ==
    LET W == {i \in 1..Len(p) : SubSeq(p, i, i) \in {"*", "?"}}
    IN  IF W = {} THEN Len(p) ELSE (CHOOSE i \in W : \A j \in W : i <= j) - 1

\* IAM wildcard matching of a policy pattern against a concrete name:
\* '*' stands for any run of characters, '?' for any single character.
RECURSIVE GlobMatch(_, _)
GlobMatch(p, s) ==
    IF Len(p) = 0 THEN Len(s) = 0
    ELSE IF First(p) = "*"
         THEN \E k \in 0..Len(s) : GlobMatch(Rest(p), SubSeq(s, k + 1, Len(s)))
         ELSE IF First(p) = "?"
              THEN Len(s) > 0 /\ GlobMatch(Rest(p), Rest(s))
              ELSE LET n == LiteralLen(p)
                   IN  /\ Len(s) >= n
                       /\ SubSeq(s, 1, n) = SubSeq(p, 1, n)
                       /\ GlobMatch(SubSeq(p, n + 1, Len(p)), SubSeq(s, n + 1, Len(s)))

(***************************************************************************)
(* Literals of the source.                                                 *)
(***************************************************************************)
ServicePrincipalName == "lambda.amazonaws.com"

RoleDescriptionPrefix == "Lambda execution role for "

S3Actions_Wide == {"s3:*"}

S3Actions == {"s3:List*", "s3:Get*"}

S3Resources_AnyBucket == {"arn:aws:s3:::*"}

S3Resources_Short == {"arn:aws:s3:::umccr-1*"}

S3Resources == {"arn:aws:s3:::umccr-10*"}

BasicExecutionRole == "service-role/AWSLambdaBasicExecutionRole"

ImageAsset == "application/lambda/beacon"

TimeoutSeconds == 60

FunctionName == "elsa-data-beacon"

ARM_64 == "arm64"

X86_64 == "x86_64"

EntryStackId == "ElaDataBeaconLambdaStack"

EntryEnv == [account |-> "843407916570", region |-> "ap-southeast-2"]

\* What the constructor passes to the constructs it declares.
StackConfig ==
    [actions      |-> S3Actions,
     resources    |-> S3Resources,
     timeout      |-> TimeoutSeconds,
     functionName |-> FunctionName,
     architecture |-> ARM_64,
     code         |-> ImageAsset]

\* unnamed/part_001: the documented invocation.
InvokeFunctionName == "elsa-data-beacon"

SamplePayload ==
    [vcf_bucket       |-> "umccr-10g-data-dev",
     vcf_key          |-> "HG00174/HG00174.hard-filtered.vcf.gz",
     vcf_index_bucket |-> "umccr-10g-data-dev",
     vcf_index_key    |-> "HG00174/HG00174.hard-filtered.vcf.gz.tbi"]

(***************************************************************************)
(* Inputs the model draws from.                                            *)
(***************************************************************************)
StackIds == {EntryStackId, "SecondBeaconStack"}

Envs == {EntryEnv, [account |-> "843407916570", region |-> "us-east-1"]}

NoEnv == [account |-> "", region |-> ""]

NoFrame == [id |-> "", env |-> NoEnv, cfg |-> StackConfig, s3BucketPolicy |-> {}]

NotInvoked ==
    [found |-> FALSE, bucket |-> "", key |-> "", canList |-> FALSE, canGet |-> FALSE]

(***************************************************************************)
(* The constructs the stack declares.                                      *)
(***************************************************************************)
ServicePrincipal_Ec2(service) == "ec2.amazonaws.com"

ServicePrincipal(service) == service

\* new Role(this, "Role", {assumedBy, description})
Role_Numbered(id) ==
    [cid              |-> "Role",
     path             |-> id \o "/Role",
     assumedBy        |-> ServicePrincipal(ServicePrincipalName),
     description      |-> RoleDescriptionPrefix \o id \o ToString(runs),
     managedPolicies  |-> <<>>,
     inlineStatements |-> {}]

Role(id) ==
    [cid              |-> "Role",
     path             |-> id \o "/Role",
     assumedBy        |-> ServicePrincipal(ServicePrincipalName),
     description      |-> RoleDescriptionPrefix \o id,
     managedPolicies  |-> <<>>,
     inlineStatements |-> {}]

\* new PolicyStatement({actions, resources}): the statement as requested.
PolicyStatement(props) ==
    [effect    |-> "Allow",
     actions   |-> props.actions,
     resources |-> props.resources]

\* lambdaRole.addManagedPolicy(ManagedPolicy.fromAwsManagedPolicyName(name))
addManagedPolicy(role, name) ==
    [role EXCEPT !.managedPolicies = Append(@, name)]

\* lambdaRole.addToPolicy(statement)
addToPolicy_Dropped(role, statement) == role

addToPolicy(role, statement) ==
    [role EXCEPT !.inlineStatements = @ \cup {statement}]

\* Duration.seconds(amount): a Duration cannot be negative.
DurationSeconds_Capped(amount) ==
    [ok |-> amount >= 1 /\ amount <= 900, seconds |-> amount]

DurationSeconds(amount) == [ok |-> amount >= 0, seconds |-> amount]

\* new DockerImageFunction(this, "BeaconHandler", {code, timeout, functionName,
\* architecture, role})
DockerImageFunction_NamedById(id, cfg, role) ==
    [cid          |-> "BeaconHandler",
     path         |-> id \o "/BeaconHandler",
     code         |-> cfg.code,
     timeout      |-> DurationSeconds(cfg.timeout).seconds,
     functionName |-> cfg.functionName \o "-" \o id,
     architecture |-> cfg.architecture,
     role         |-> role.path]

DockerImageFunction(id, cfg, role) ==
    [cid          |-> "BeaconHandler",
     path         |-> id \o "/BeaconHandler",
     code         |-> cfg.code,
     timeout      |-> DurationSeconds(cfg.timeout).seconds,
     functionName |-> cfg.functionName,
     architecture |-> cfg.architecture,
     role         |-> role.path]

\* super(scope, id, props): a scope holds one construct per id.
HasChild_Never(scope, id) == FALSE

HasChild(scope, id) == \E s \in scope : s.id = id

Stack(id, props) == [id |-> id, env |-> props, roles |-> {}, functions |-> {}]

\* The stack under construction and its role, once declared.
ThisStack == CHOOSE s \in tree : s.id = cur.id

lambdaRole == CHOOSE r \in ThisStack.roles : r.cid = "Role"

WithStack(s) == (tree \ {ThisStack}) \cup {s}

(***************************************************************************)
(* State after the process image is loaded, before the first statement.    *)
(***************************************************************************)
Init ==
    /\ pc = "start"
    /\ runs = 0
    /\ tree = {}
    /\ cur = NoFrame
    /\ err = <<>>
    /\ out = <<>>
    /\ invoked = NotInvoked

(***************************************************************************)
(* bin/elsa-data-beacon-lambda.ts                                          *)
(***************************************************************************)
\* const app = new cdk.App()
NewApp ==
    /\ pc = "start"
    /\ runs < MaxRuns
    /\ runs' = runs + 1
    /\ tree' = {}
    /\ err' = <<>>
    /\ cur' = NoFrame
    /\ pc' = "main"
    /\ UNCHANGED <<out, invoked>>

\* new ElsaDataBeaconLambdaStack(app, id, {env}): enter the constructor.
Construct(id, env, cfg) ==
    /\ pc = "main"
    /\ cur' = [id |-> id, env |-> env, cfg |-> cfg, s3BucketPolicy |-> {}]
    /\ pc' = "super"
    /\ UNCHANGED <<runs, tree, err, out, invoked>>

NewStack == \E id \in StackIds, env \in Envs : Construct(id, env, StackConfig)

\* The script ends: the App synthesizes what was declared.
Exit ==
    /\ pc = "main"
    /\ out' = Append(out, [status |-> "synthesized", stacks |-> tree, errors |-> err])
    /\ pc' = "start"
    /\ tree' = {}
    /\ UNCHANGED <<runs, cur, err, invoked>>

\* An exception left the constructor: the process dies, nothing is synthesized.
Crash_EmitsTree ==
    /\ pc = "failed"
    /\ out' = Append(out, [status |-> "failed", stacks |-> tree, errors |-> err])
    /\ pc' = "start"
    /\ tree' = {}
    /\ cur' = NoFrame
    /\ err' = <<>>
    /\ UNCHANGED <<runs, invoked>>

Crash ==
    /\ pc = "failed"
    /\ out' = Append(out, [status |-> "failed", stacks |-> {}, errors |-> err])
    /\ pc' = "start"
    /\ tree' = {}
    /\ cur' = NoFrame
    /\ err' = <<>>
    /\ UNCHANGED <<runs, invoked>>

(***************************************************************************)
(* ElsaDataBeaconLambdaStack.constructor, statement by statement.          *)
(***************************************************************************)
Throw(e) ==
    /\ err' = Append(err, e)
    /\ pc' = "failed"

Super ==
    /\ pc = "super"
    /\ IF HasChild(tree, cur.id)
       THEN /\ Throw("DuplicateConstructName")
            /\ UNCHANGED tree
       ELSE /\ tree' = tree \cup {Stack(cur.id, cur.env)}
            /\ pc' = "role"
            /\ UNCHANGED err
    /\ UNCHANGED <<runs, cur, out, invoked>>

NewRole ==
    /\ pc = "role"
    /\ tree' = WithStack([ThisStack EXCEPT !.roles = @ \cup {Role(cur.id)}])
    /\ pc' = "statement"
    /\ UNCHANGED <<runs, cur, err, out, invoked>>

NewPolicyStatement ==
    /\ pc = "statement"
    /\ cur' = [cur EXCEPT !.s3BucketPolicy = {PolicyStatement(cur.cfg)}]
    /\ pc' = "managed"
    /\ UNCHANGED <<runs, tree, err, out, invoked>>

AddManagedPolicy ==
    /\ pc = "managed"
    /\ tree' = WithStack([ThisStack EXCEPT !.roles =
                 (@ \ {lambdaRole}) \cup {addManagedPolicy(lambdaRole, BasicExecutionRole)}])
    /\ pc' = "attach"
    /\ UNCHANGED <<runs, cur, err, out, invoked>>

AddToPolicy ==
    /\ pc = "attach"
    /\ \E st \in cur.s3BucketPolicy :
         tree' = WithStack([ThisStack EXCEPT !.roles =
                   (@ \ {lambdaRole}) \cup {addToPolicy(lambdaRole, st)}])
    /\ pc' = "function"
    /\ UNCHANGED <<runs, cur, err, out, invoked>>

NewFunction ==
    /\ pc = "function"
    /\ IF ~DurationSeconds(cur.cfg.timeout).ok
       THEN /\ Throw("NegativeDuration")
            /\ UNCHANGED <<tree, cur>>
       ELSE /\ tree' = WithStack([ThisStack EXCEPT !.functions =
                         @ \cup {DockerImageFunction(cur.id, cur.cfg, lambdaRole)}])
            /\ pc' = "main"
            /\ cur' = NoFrame
            /\ UNCHANGED err
    /\ UNCHANGED <<runs, out, invoked>>

(***************************************************************************)
(* unnamed/part_001: aws lambda invoke --function-name ... --payload ...   *)
(***************************************************************************)
\* What the AWS managed policy of that name grants: the baseline execution
\* policy allows writing the function's logs and nothing else.
ManagedPolicyStatements(name) ==
    IF name = "service-role/AWSLambdaBasicExecutionRole"
    THEN {[effect    |-> "Allow",
           actions   |-> {"logs:CreateLogGroup", "logs:CreateLogStream", "logs:PutLogEvents"},
           resources |-> {"*"}]}
    ELSE {}

\* Do the identity's policies allow `action` on `resource`?
Allows(role, action, resource) ==
    \E st \in role.inlineStatements
                \cup UNION {ManagedPolicyStatements(role.managedPolicies[i]) :
                              i \in 1..Len(role.managedPolicies)} :
        /\ st.effect = "Allow"
        /\ \E a \in st.actions : GlobMatch(a, action)
        /\ \E r \in st.resources : GlobMatch(r, resource)

BucketArn(bucket) == "arn:aws:s3:::" \o bucket

ObjectArn(bucket, key) == "arn:aws:s3:::" \o bucket \o "/" \o key

\* The payloads tried: the documented one (data file and index) and requests
\* for objects of other buckets.
Payloads ==
    {[bucket |-> SamplePayload.vcf_bucket, key |-> SamplePayload.vcf_key],
     [bucket |-> SamplePayload.vcf_index_bucket, key |-> SamplePayload.vcf_index_key],
     [bucket |-> "umccr-1", key |-> "a.vcf.gz"],
     [bucket |-> "other-umccr-10g", key |-> "a.vcf.gz"]}

\* The functions a synthesized assembly declares under the invoked name.
Deployed ==
    {<<s, f>> \in UNION {o.stacks \X UNION {t.functions : t \in o.stacks} :
                            o \in {out[i] : i \in 1..Len(out)}} :
        f \in s.functions /\ f.functionName = InvokeFunctionName}

Invoke ==
    /\ pc = "start"
    /\ \E p \in Payloads :
         IF Deployed = {}
         THEN invoked' = [NotInvoked EXCEPT !.bucket = p.bucket, !.key = p.key]
         ELSE \E d \in Deployed :
                LET role == CHOOSE r \in d[1].roles : r.path = d[2].role
                IN  invoked' =
                      [found   |-> TRUE,
                       bucket  |-> p.bucket,
                       key     |-> p.key,
                       canList |-> Allows(role, "s3:ListBucket", BucketArn(p.bucket)),
                       canGet  |-> Allows(role, "s3:GetObject", ObjectArn(p.bucket, p.key))]
    /\ UNCHANGED <<pc, runs, tree, cur, err, out>>

Next ==
    \/ NewApp
    \/ NewStack
    \/ Super
    \/ NewRole
    \/ NewPolicyStatement
    \/ AddManagedPolicy
    \/ AddToPolicy
    \/ NewFunction
    \/ Exit
    \/ Crash
    \/ Invoke

Spec == Init /\ [][Next]_vars

(***************************************************************************)
(* The constructs on their own: one process in which the constructor's     *)
(* statements are run with requests other than the stack's literals.       *)
(***************************************************************************)
ProbeConfigs ==
    {StackConfig,
     [StackConfig EXCEPT !.actions = {"s3:List*", "s3:PutObject"}],
     [StackConfig EXCEPT !.actions = {"s3:DeleteObject"}],
     [StackConfig EXCEPT !.resources = {"arn:aws:s3:::*"}],
     [StackConfig EXCEPT !.resources = {"arn:aws:s3:::umccr-10*", "arn:aws:s3:::other-bucket"}],
     [StackConfig EXCEPT !.timeout = 1000],
     [StackConfig EXCEPT !.timeout = 901],
     [StackConfig EXCEPT !.timeout = 900],
     [StackConfig EXCEPT !.timeout = 0],
     [StackConfig EXCEPT !.timeout = 0 - 1],
     [StackConfig EXCEPT !.timeout = 1000, !.architecture = X86_64],
     [StackConfig EXCEPT !.actions = {"s3:PutObject"}, !.timeout = 0 - 1]}

FactoryNewApp == runs = 0 /\ NewApp

NewStackWith ==
    \E id \in StackIds, env \in Envs, cfg \in ProbeConfigs : Construct(id, env, cfg)

FactoryNext ==
    \/ FactoryNewApp
    \/ NewStackWith
    \/ Super
    \/ NewRole
    \/ NewPolicyStatement
    \/ AddManagedPolicy
    \/ AddToPolicy
    \/ NewFunction
    \/ Exit
    \/ Crash

SpecFactory == Init /\ [][FactoryNext]_vars

(***************************************************************************)
(* Vocabulary of the properties.                                           *)
(***************************************************************************)
Outcomes == {out[i] : i \in 1..Len(out)}

EmittedStacks == UNION {o.stacks : o \in Outcomes}

Errors == {err[i] : i \in 1..Len(err)}

InConstructor == pc \in {"role", "statement", "managed", "attach", "function"}

\* The read-only allow-list: list and get operations of the storage service.
ReadOnlyAction(a) == HasPrefix(a, "s3:List") \/ HasPrefix(a, "s3:Get")

\* The approved bucket-naming prefix.
ApprovedResource(r) == HasPrefix(r, "arn:aws:s3:::umccr-10")

\* Every statement built or attached so far.
Statements ==
    cur.s3BucketPolicy
      \cup UNION {r.inlineStatements : r \in UNION {s.roles : s \in tree \cup EmittedStacks}}

\* The statements attached to the roles of the stack under construction.
AttachedHere == UNION {r.inlineStatements : r \in ThisStack.roles}

\* A stack as the end-to-end scenario describes it.
WellFormed(s) ==
    /\ Cardinality(s.functions) = 1
    /\ Cardinality(s.roles) = 1
    /\ \A f \in s.functions, r \in s.roles :
         /\ f.role = r.path
         /\ r.assumedBy = "lambda.amazonaws.com"
         /\ r.managedPolicies = <<"service-role/AWSLambdaBasicExecutionRole">>
         /\ Cardinality(r.inlineStatements) = 1

(***************************************************************************)
(* Properties.                                                             *)
(***************************************************************************)

\* C1: assembling the stack with its literals for a target succeeds and every
\* synthesized stack holds exactly one function, bound to exactly one role,
\* which carries exactly one inline statement (s3:List*, s3:Get* on
\* arn:aws:s3:::umccr-10*) plus AWSLambdaBasicExecutionRole and nothing else;
\* the only assembly that fails is one that reuses a stack id of the same App.
C1_EndToEnd ==
    /\ \A o \in Outcomes : o.status = "synthesized" =>
         \A s \in o.stacks :
           /\ WellFormed(s)
           /\ \A r \in s.roles :
                r.inlineStatements =
                  {[effect    |-> "Allow",
                    actions   |-> {"s3:List*", "s3:Get*"},
                    resources |-> {"arn:aws:s3:::umccr-10*"}]}
           /\ \A f \in s.functions :
                /\ f.functionName = "elsa-data-beacon"
                /\ f.timeout = 60
                /\ f.architecture = "arm64"
    /\ pc = "failed" => err = <<"DuplicateConstructName">> /\ HasChild(tree, cur.id)

\* C1 witness: the entry point's stack, for the entry point's target, has been
\* synthesized with its function.
C1_Witness ==
    \E o \in Outcomes :
      /\ o.status = "synthesized"
      /\ \E s \in o.stacks :
           s.id = "ElaDataBeaconLambdaStack" /\ s.env = EntryEnv /\ s.functions # {}

C8_InvokedName ==
    /\ \A s \in EmittedStacks :
         /\ Cardinality(s.functions) = 1
         /\ \A f \in s.functions : f.functionName = InvokeFunctionName
    /\ invoked.found => EmittedStacks # {}
    /\ (EmittedStacks # {}) => Deployed # {}

\* C8 witness: the documented command has found a function.
C8_Witness == invoked.found /\ invoked.bucket = "umccr-10g-data-dev"

\* C9: when the function is about to be declared, the role already trusts
\* lambda.amazonaws.com and already carries the baseline managed policy and the
\* inline S3 statement; every function references exactly one role of its own
\* stack, and no two functions reference the same role.
C9_Order ==
    /\ pc = "function" =>
         /\ ThisStack.functions = {}
         /\ Cardinality(ThisStack.roles) = 1
         /\ lambdaRole.assumedBy = "lambda.amazonaws.com"
         /\ lambdaRole.managedPolicies = <<"service-role/AWSLambdaBasicExecutionRole">>
         /\ lambdaRole.inlineStatements = cur.s3BucketPolicy
         /\ Cardinality(cur.s3BucketPolicy) = 1
    /\ \A s \in tree : \A f \in s.functions :
         /\ Cardinality({r \in s.roles : r.path = f.role}) = 1
         /\ \A r \in s.roles : r.path = f.role =>
              /\ r.assumedBy = "lambda.amazonaws.com"
              /\ Len(r.managedPolicies) = 1
              /\ Cardinality(r.inlineStatements) = 1
    /\ \A s1 \in tree, s2 \in tree : \A f1 \in s1.functions, f2 \in s2.functions :
         f1.role = f2.role => (s1 = s2 /\ f1 = f2)

\* C9 witness: two stacks of one App each hold a function.
C9_Witness ==
    \E s1 \in tree, s2 \in tree :
      s1.id # s2.id /\ s1.functions # {} /\ s2.functions # {}

\* C10: the function's role may list and get exactly in the buckets whose name
\* starts with umccr-10, which covers both reads of the documented payload.
C10_Reads ==
    invoked.found =>
      /\ invoked.canList <=> HasPrefix(invoked.bucket, "umccr-10")
      /\ invoked.canGet <=> HasPrefix(invoked.bucket, "umccr-10")
      /\ (invoked.bucket \in {"umccr-10g-data-dev"}) =>
           invoked.canList /\ invoked.canGet

\* C10 witness: the index file of the documented payload has been read.
C10_Witness ==
    /\ invoked.found
    /\ invoked.bucket = SamplePayload.vcf_index_bucket
    /\ invoked.key = SamplePayload.vcf_index_key
    /\ invoked.canList
    /\ invoked.canGet

====
